---- MODULE Spec2Model ----
(***************************************************************************)
(* Model of tool_alfred: the feature supervisor (app/main.py), the         *)
(* Downloads Janitor scan engine (app/features/download_janitor.py with    *)
(* app/utils/fs.py and app/utils/obsidian.py) and the Dev Git Overview     *)
(* (app/features/dev_git_overview.py): discovery, inspection, last-push    *)
(* resolution, flags, table and note.                                      *)
(***************************************************************************)
EXTENDS Integers, Sequences, FiniteSets, TLC

VARIABLES
    \* ---- supervisor (app/main.py) ----
    mpc,         \* position of main()
    enabled,     \* cfg.enabled_features
    workers,     \* the started threads: <<[key, st]>>
    slog,        \* lines written by main()'s logger and the thread boundary
    exitStatus,  \* "running", or the status the process ended with
    exitWhy,     \* which exit of main() was taken
    \* ---- Downloads Janitor (app/features/download_janitor.py) ----
    jpc,         \* position of run_forever / _scan_once
    jcfg,        \* JanitorSettings
    fs,          \* files under the root: path -> [id, mtime]
    dirs,        \* directories that exist: "." (the root) and its top folders
    now,         \* time.time()
    entries,     \* what is left of root.iterdir()
    moved_count, \* _scan_once locals
    skipped,
    moves,
    failures,    \* the FAILED lines of this scan
    cur,         \* the entry being relocated and its resolved destination
    jerr,        \* the exception that left run_forever, "none" otherwise
    cycle,       \* completed scan cycles
    note,        \* sections of the Obsidian note
    emitted,     \* sections handed to append_markdown
    start,       \* [fs, dirs] when the feature started
    scanStart,   \* [fs, order] when the running scan listed the root
    envOps,      \* files other processes have created or removed
    \* ---- Dev Git Overview (app/features/dev_git_overview.py) ----
    gpc,         \* position of _resolve_last_push
    repo,        \* the repository: its upstream, the upstream's reflog and tip
    gtool,       \* the queries on which the git tool itself fails
    upstream,    \* _resolve_last_push local
    gres,        \* what _resolve_last_push returns
    wpc,         \* position of _discover_repositories
    tree,        \* the directories under the root, and those holding ".git"
    wcfg,        \* DevGitOverviewSettings: max_depth, ignore_dirs
    stack,       \* directories os.walk has still to hand out
    visited,     \* directories os.walk has handed to the loop body
    found,       \* _discover_repositories' repos
    cpc,         \* position of the Dev Git Overview's run_forever / _scan_once
    cobs,        \* cfg.obsidian: "off", "on", or enabled without a target
    facts,       \* what git answers in each repository
    repos,       \* _scan_once locals
    ri,          \* repositories the inspection loop is done with
    statuses,
    cnow,        \* datetime.now(), in hours
    markdown,    \* _maybe_write_obsidian local
    gnote,       \* sections of the Dev Git Overview's note
    cwrote,      \* how the last cycle left _maybe_write_obsidian
    ccycle       \* completed scan cycles

supVars == <<mpc, enabled, workers, slog, exitStatus, exitWhy>>

janVars == <<jpc, jcfg, fs, dirs, now, entries, moved_count, skipped, moves,
             failures, cur, jerr, cycle, note, emitted, start, scanStart, envOps>>

gitVars == <<gpc, repo, gtool, upstream, gres>>

walkVars == <<wpc, tree, wcfg, stack, visited, found>>

\* the state of the Dev Git Overview
cycVars == <<cpc, cobs, facts, repos, ri, statuses, cnow, markdown, gnote, cwrote, ccycle>>

devVars == <<gitVars, walkVars, cycVars>>

vars == <<supVars, janVars, devVars>>

(***************************************************************************)
(* Bounds                                                                  *)
(***************************************************************************)
MaxEnabled == 2

\* loose files in the root when the feature starts
MaxRootFiles == 2

\* scan cycles a behaviour runs through
MaxCycles == 2

\* files other processes create or remove during a behaviour
MaxEnvOps == 1

\* highest " (i)" suffix among the names already in a destination folder
MaxSuffix == 3

\* entries in the upstream's reflog
MaxReflog == 2

\* depth of the deepest directory under the Dev Git Overview's root
MaxTreeDepth == 2

\* directories that hold a ".git" subdirectory
MaxRepos == 2

\* uncommitted files in a repository
MaxDirty == 2

\* latest hour, counted from 2024-05-01T00:00 UTC, at which a table is rendered
MaxClock == 230

(***************************************************************************)
(* Generic helpers                                                         *)
(***************************************************************************)
SeqsUpTo(S, n) == UNION {[1..k -> S] : k \in 0..n}

Range(s) == {s[i] : i \in DOMAIN s}

CountIn(s, P(_)) == Cardinality({i \in DOMAIN s : P(s[i])})

(***************************************************************************)
(* Supervisor                                                              *)
(***************************************************************************)
\* registry.py: the keys of FEATURES
FEATURES == {"downloads_janitor", "dev_git_overview"}

\* keys a configuration file may list: the registered ones and an unknown one
KeyUniverse == FEATURES \cup {"bogus"}

LogLine(level, what, key) == [level |-> level, what |-> what, key |-> key]

\* main.py:30  `if key not in FEATURES`
UnknownKey(key) == key \notin FEATURES

\* a validation that stops after the first key of the list
FirstUnknownHeadOnly(keys, i) ==
    IF i = 1 /\ Len(keys) >= 1 /\ UnknownKey(keys[1]) THEN 1 ELSE 0

\* main.py:29-32  the validation loop: the first unknown key, 0 when none
RECURSIVE FirstUnknownFrom(_, _)
FirstUnknownFrom(keys, i) ==
    IF i > Len(keys) THEN 0
    ELSE IF UnknownKey(keys[i]) THEN i
    ELSE FirstUnknownFrom(keys, i + 1)

\* a poll that asks whether every worker is alive
AllAlive(ws) == \A i \in DOMAIN ws : ws[i].st # "dead"

\* main.py:58  any(worker.is_alive() for worker in workers)
AnyAlive(ws) == \E i \in DOMAIN ws : ws[i].st # "dead"

\* main.py:17-18  the except clause of _run_feature_worker: one ERROR line
\* naming the feature key
CrashLine(key) == LogLine("ERROR", "Feature crashed", key)

\* a crash that takes every thread down with it
AllThreadsEnd(ws, i) == [j \in DOMAIN ws |-> [ws[j] EXCEPT !.st = "dead"]]

\* main.py:14-18  the thread function returns after the except clause: only
\* this thread ends
ThreadEnds(ws, i) == [ws EXCEPT ![i].st = "dead"]

SupInit ==
    /\ mpc = "load"
    /\ enabled \in SeqsUpTo(KeyUniverse, MaxEnabled)
    /\ workers = <<>>
    /\ slog = <<>>
    /\ exitStatus = "running"
    /\ exitWhy = "none"

Running == exitStatus = "running"

\* main.py:22  AppConfig.load(): an unreadable or malformed file raises out of
\* main(), the interpreter ends with status 1
MLoad ==
    /\ Running /\ mpc = "load"
    /\ \E ok \in BOOLEAN :
        IF ok
        THEN /\ mpc' = "check_empty"
             /\ UNCHANGED <<exitStatus, exitWhy>>
        ELSE /\ mpc' = "exited"
             /\ exitStatus' = "1"
             /\ exitWhy' = "load_error"
    /\ UNCHANGED <<enabled, workers, slog>>
    /\ UNCHANGED <<janVars, devVars>>

\* main.py:25-27
MCheckEmpty ==
    /\ Running /\ mpc = "check_empty"
    /\ IF Len(enabled) = 0
       THEN /\ slog' = Append(slog, LogLine("WARN", "No enabled_features", "-"))
            /\ mpc' = "exited"
            /\ exitStatus' = "0"
            /\ exitWhy' = "no_features"
       ELSE /\ mpc' = "validate"
            /\ UNCHANGED <<slog, exitStatus, exitWhy>>
    /\ UNCHANGED <<enabled, workers>>
    /\ UNCHANGED <<janVars, devVars>>

\* main.py:29-39  the whole validation loop, then the signal handlers
MValidate ==
    /\ Running /\ mpc = "validate"
    /\ LET u == FirstUnknownFrom(enabled, 1) IN
       IF u # 0
       THEN /\ slog' = Append(slog, LogLine("ERROR", "Unknown feature", enabled[u]))
            /\ mpc' = "exited"
            /\ exitStatus' = "0"
            /\ exitWhy' = "unknown_feature"
       ELSE /\ mpc' = "spawn"
            /\ UNCHANGED <<slog, exitStatus, exitWhy>>
    /\ UNCHANGED <<enabled, workers>>
    /\ UNCHANGED <<janVars, devVars>>

\* main.py:44-55  one iteration of the spawn loop; FEATURES[feature_key] raises
\* KeyError out of main() for a key that is not registered
MSpawn ==
    /\ Running /\ mpc = "spawn"
    /\ LET i == Len(workers) + 1 IN
       IF i > Len(enabled)
       THEN /\ mpc' = "poll"
            /\ UNCHANGED <<workers, slog, exitStatus, exitWhy>>
       ELSE IF enabled[i] \notin FEATURES
       THEN /\ mpc' = "exited"
            /\ exitStatus' = "1"
            /\ exitWhy' = "key_error"
            /\ UNCHANGED <<workers, slog>>
       ELSE /\ workers' = Append(workers, [key |-> enabled[i], st |-> "scan"])
            /\ slog' = Append(slog, LogLine("INFO", "Started feature", enabled[i]))
            /\ UNCHANGED <<mpc, exitStatus, exitWhy>>
    /\ UNCHANGED enabled
    /\ UNCHANGED <<janVars, devVars>>

\* main.py:57-60
MPoll ==
    /\ Running /\ mpc = "poll"
    /\ IF ~AnyAlive(workers)
       THEN /\ slog' = Append(slog, LogLine("ERROR", "All features stopped", "-"))
            /\ mpc' = "exited"
            /\ exitStatus' = "0"
            /\ exitWhy' = "all_stopped"
       ELSE /\ mpc' = "sleep"
            /\ UNCHANGED <<slog, exitStatus, exitWhy>>
    /\ UNCHANGED <<enabled, workers>>
    /\ UNCHANGED <<janVars, devVars>>

\* main.py:61  time.sleep(1)
MSleep ==
    /\ Running /\ mpc = "sleep"
    /\ mpc' = "poll"
    /\ UNCHANGED <<enabled, workers, slog, exitStatus, exitWhy>>
    /\ UNCHANGED <<janVars, devVars>>

\* main.py:34-39  SIGTERM/SIGINT once the handlers are installed: sys.exit(0).
\* Before that the default disposition ends the process by the signal.
MSignal ==
    /\ Running /\ mpc # "exited"
    /\ IF mpc \in {"spawn", "poll", "sleep"}
       THEN /\ slog' = Append(slog, LogLine("INFO", "Shutdown signal received", "-"))
            /\ exitStatus' = "0"
       ELSE /\ exitStatus' = "SIGTERM"
            /\ UNCHANGED slog
    /\ mpc' = "exited"
    /\ exitWhy' = "signal"
    /\ UNCHANGED <<enabled, workers>>
    /\ UNCHANGED <<janVars, devVars>>

\* a scan that can end only while no other thread is stuck in a blocking call
WScanDoneBehindHung(i) ==
    /\ Running /\ i \in DOMAIN workers /\ workers[i].st = "scan"
    /\ \A j \in DOMAIN workers : workers[j].st # "hung"
    /\ workers' = [workers EXCEPT ![i].st = "sleep"]
    /\ UNCHANGED <<mpc, enabled, slog, exitStatus, exitWhy>>
    /\ UNCHANGED <<janVars, devVars>>

\* download_janitor.py:46-48, dev_git_overview.py:42-44: a scan cycle ends and
\* the thread sleeps
WScanDone(i) ==
    /\ Running /\ i \in DOMAIN workers /\ workers[i].st = "scan"
    /\ workers' = [workers EXCEPT ![i].st = "sleep"]
    /\ UNCHANGED <<mpc, enabled, slog, exitStatus, exitWhy>>
    /\ UNCHANGED <<janVars, devVars>>

\* the sleep ends and the next cycle starts
WWake(i) ==
    /\ Running /\ i \in DOMAIN workers /\ workers[i].st = "sleep"
    /\ workers' = [workers EXCEPT ![i].st = "scan"]
    /\ UNCHANGED <<mpc, enabled, slog, exitStatus, exitWhy>>
    /\ UNCHANGED <<janVars, devVars>>

\* main.py:16  run_forever raises out of a scan cycle
WRaise(i) ==
    /\ Running /\ i \in DOMAIN workers /\ workers[i].st = "scan"
    /\ workers' = [workers EXCEPT ![i].st = "raised"]
    /\ UNCHANGED <<mpc, enabled, slog, exitStatus, exitWhy>>
    /\ UNCHANGED <<janVars, devVars>>

\* main.py:17-18  the thread boundary catches, logs, and the thread ends
WCaught(i) ==
    /\ Running /\ i \in DOMAIN workers /\ workers[i].st = "raised"
    /\ slog' = Append(slog, CrashLine(workers[i].key))
    /\ workers' = ThreadEnds(workers, i)
    /\ UNCHANGED <<mpc, enabled, exitStatus, exitWhy>>
    /\ UNCHANGED <<janVars, devVars>>

(***************************************************************************)
(* Downloads Janitor: names, paths and the pure helpers of app/utils/fs.py *)
(***************************************************************************)
\* A file name "<base>[ (n1)][ (n2)]...[.<ext>]": Path(name).stem is the base
\* with its " (n)" groups, Path(name).suffix is "." and the extension.
Nm(base, nums, ext) == [base |-> base, nums |-> nums, ext |-> ext]

\* a path under the root: the root itself is ".", a top folder is its name
Pth(dir, name) == [dir |-> dir, name |-> name]

Root == "."

NoPath == Pth("-", Nm("-", <<>>, ""))

\* download_janitor.py:201 and :200, the defaults of _load_settings
DefaultMinAge == 60

DefaultInterval == 120

\* str.lower() on the extensions the model's files carry
Lower(ext) ==
    CASE ext = "JPG" -> "jpg"
      [] ext = "PDF" -> "pdf"
      [] OTHER -> ext

\* download_janitor.py:155-161
images == {"png", "jpg", "jpeg", "gif", "webp", "svg", "heic", "tiff", "bmp"}

videos == {"mp4", "mov", "mkv", "avi", "webm", "m4v"}

audio == {"mp3", "m4a", "aac", "wav", "flac", "ogg"}

docs == {"pdf", "doc", "docx", "xls", "xlsx", "ppt", "pptx", "txt", "md", "rtf", "csv", "mdx"}

archives == {"zip", "rar", "7z", "tar", "gz", "bz2", "xz"}

code == {"js", "jsx", "ts", "tsx", "py", "json", "yml", "yaml", "toml", "ini", "sql", "sh"}

apps == {"dmg", "pkg"}

\* download_janitor.py:152-178  _classify
Classify(name) ==
    LET ext == Lower(name.ext) IN
    IF ext \in images THEN "images"
    ELSE IF ext \in videos THEN "videos"
    ELSE IF ext \in audio THEN "audio"
    ELSE IF ext \in docs THEN "docs"
    ELSE IF ext \in archives THEN "archives"
    ELSE IF ext \in code THEN "code"
    ELSE IF ext \in apps THEN "apps"
    ELSE "other"

\* download_janitor.py:184-193  the default category-to-folder map
DefaultFolders ==
    [images |-> "Images", videos |-> "Videos", audio |-> "Audio", docs |-> "Docs",
     archives |-> "Archives", code |-> "Code", apps |-> "Apps", other |-> "Other"]

\* download_janitor.py:203-213  the default ignore globs: an exact name, a
\* leading-dot prefix, and "*.<ext>" suffixes
DefaultIgnore ==
    {[kind |-> "exact", text |-> ".DS_Store"],
     [kind |-> "prefix", text |-> "."],
     [kind |-> "suffix", text |-> "crdownload"],
     [kind |-> "suffix", text |-> "part"],
     [kind |-> "suffix", text |-> "download"]}

\* bases of the model's names that begin with a dot
DotBases == {".DS_Store"}

\* fnmatch.fnmatch(name, pattern) for the three pattern shapes (POSIX: case
\* is significant)
Fnmatch(name, pat) ==
    CASE pat.kind = "exact" -> name = Nm(pat.text, <<>>, "")
      [] pat.kind = "prefix" -> name.base \in DotBases
      [] pat.kind = "suffix" -> name.ext = pat.text

\* fs.py:18-19  matches_any
MatchesAny(name, patterns) == \E pat \in patterns : Fnmatch(name, pat)

\* fs.py:26-31  is_recent, for a file whose stat() succeeded
IsRecent(mtime, t, min_age_seconds) == (t - mtime) < min_age_seconds

\* fs.py:34-41  is_in_top_folder for an immediate entry of the root:
\* rel.parts[0] is the entry's own name
IsInTopFolder(name, top_folders) ==
    \E f \in top_folders : name = Nm(f, <<>>, "")

\* Path.exists() of a path under the root
Exists(fsx, p) == p \in DOMAIN fsx

\* a probe that takes the first suffixed name without looking
ProbeUnchecked(fsx, dest_dir, filename, i) ==
    Pth(dest_dir, Nm(filename.base, Append(filename.nums, i), filename.ext))

\* fs.py:51-56  the probe loop of unique_target_path, from suffix i
RECURSIVE ProbeFrom(_, _, _, _)
ProbeFrom(fsx, dest_dir, filename, i) ==
    LET alt == Pth(dest_dir, Nm(filename.base, Append(filename.nums, i), filename.ext)) IN
    IF ~Exists(fsx, alt) THEN alt ELSE ProbeFrom(fsx, dest_dir, filename, i + 1)

\* fs.py:44-56  unique_target_path
UniqueTargetPath(fsx, dest_dir, filename) ==
    LET candidate == Pth(dest_dir, filename) IN
    IF ~Exists(fsx, candidate) THEN candidate ELSE ProbeFrom(fsx, dest_dir, filename, 2)

\* a move made by copying: the source stays behind
CopyKeepingSource(fsx, src, dest) ==
    [p \in DOMAIN fsx \cup {dest} |-> IF p = dest THEN fsx[src] ELSE fsx[p]]

\* fs.py:61  os.replace(src, dest): one rename; what was at dest is replaced
OsReplace(fsx, src, dest) ==
    [p \in (DOMAIN fsx \ {src}) \cup {dest} |-> IF p = dest THEN fsx[src] ELSE fsx[p]]

\* fs.py:22-23  ensure_dir
EnsureDir(dirsx, d) == dirsx \cup {Root, d}

\* download_janitor.py:84  cfg.folders.get(key, cfg.folders["other"]): the
\* default is evaluated first, so a map without "other" raises KeyError
DestFolder(folders, key) ==
    IF "other" \notin DOMAIN folders THEN [ok |-> FALSE, folder |-> "-"]
    ELSE IF key \in DOMAIN folders THEN [ok |-> TRUE, folder |-> folders[key]]
    ELSE [ok |-> TRUE, folder |-> folders["other"]]

\* download_janitor.py:64-85  what _scan_once decides for one entry; stat is
\* the outcome of the entry's stat() when the file is there
Decide(fsx, dirsx, cfg, t, name, stat) ==
    LET p == Pth(Root, name)
        d == DestFolder(cfg.folders, Classify(name))
        out(kind, dest, err) == [kind |-> kind, dest |-> dest, err |-> err]
    IN
    IF \E f \in dirsx : name = Nm(f, <<>>, "") THEN out("dir", NoPath, "none")
    ELSE IF MatchesAny(name, cfg.ignore) THEN out("skip", NoPath, "none")
    ELSE IF ~Exists(fsx, p) THEN out("skip", NoPath, "none")
    ELSE IF stat = "EACCES" THEN out("raise", NoPath, "PermissionError")
    ELSE IF IsRecent(fsx[p].mtime, t, cfg.min_file_age_seconds) THEN out("skip", NoPath, "none")
    ELSE IF IsInTopFolder(name, cfg.protected_folders) THEN out("skip", NoPath, "none")
    ELSE IF ~d.ok THEN out("raise", NoPath, "KeyError")
    ELSE out("move", UniqueTargetPath(fsx, d.folder, name), "none")

(***************************************************************************)
(* Downloads Janitor: the feature's state machine                          *)
(***************************************************************************)
\* category-to-folder maps a configuration may give (raw["folders"]): one with
\* three categories, one without "other", one with "other" alone
FolderMaps ==
    {[images |-> "Images", docs |-> "Docs", other |-> "Other"],
     [images |-> "Images", docs |-> "Docs"],
     [other |-> "Other"]}

FolderValues(folders) == {folders[k] : k \in DOMAIN folders}

\* a fixed listing order for the top folders
FolderOrder ==
    <<"Images", "Videos", "Audio", "Docs", "Archives", "Code", "Apps", "Other">>

\* download_janitor.py:180-218  _load_settings
Settings(dry_run, folders, obs) ==
    [root |-> Root,
     scan_interval_seconds |-> DefaultInterval,
     min_file_age_seconds |-> DefaultMinAge,
     dry_run |-> dry_run,
     ignore |-> DefaultIgnore,
     protected_folders |-> FolderValues(folders),
     folders |-> folders,
     obsidian |-> obs]

\* loose files that may lie in the root, and files already sorted into Docs
RootNames ==
    {Nm("report", <<>>, "pdf"), Nm("report", <<2>>, "pdf"),
     Nm("photo", <<>>, "JPG"), Nm("setup", <<>>, "part")}

SortedPaths ==
    {Pth("Docs", Nm("report", <<>>, "pdf")), Pth("Docs", Nm("report", <<2>>, "pdf"))}

ClockAtStart == 2 * DefaultMinAge

\* a file: who it is (the path it was first seen at) and its mtime
FileAt(p, mtime) == [id |-> p, mtime |-> mtime]

\* the tree with the loose files R (those in F just written) and the sorted
\* files P
FsOf(R, F, P) ==
    [p \in {Pth(Root, n) : n \in R} \cup P |->
        IF p.dir = Root /\ p.name \in F
        THEN FileAt(p, ClockAtStart)
        ELSE FileAt(p, 0)]

InitialTrees(dirsx) ==
    IF Root \notin dirsx THEN {FsOf({}, {}, {})}
    ELSE UNION {
        {FsOf(R, F, P) :
            F \in {X \in SUBSET R : Cardinality(X) <= 1},
            P \in (IF "Docs" \in dirsx THEN SUBSET SortedPaths ELSE {{}})}
        : R \in {X \in SUBSET RootNames : Cardinality(X) <= MaxRootFiles}}

Perms(S) ==
    {s \in [1..Cardinality(S) -> S] : \A i, j \in DOMAIN s : i # j => s[i] # s[j]}

\* root.iterdir(): the top folders, then the loose files in any order
Listings(fsx, dirsx) ==
    LET folders == SelectSeq(FolderOrder, LAMBDA f : f \in dirsx)
        names == {p.name : p \in {q \in DOMAIN fsx : q.dir = Root}}
    IN {[i \in DOMAIN folders |-> Nm(folders[i], <<>>, "")] \o s : s \in Perms(names)}

\* download_janitor.py:57-62  nothing scanned, counted or written yet
JanFresh ==
    /\ now = ClockAtStart
    /\ entries = <<>>
    /\ moved_count = 0
    /\ skipped = 0
    /\ moves = <<>>
    /\ failures = <<>>
    /\ jerr = "none"
    /\ cycle = 0
    /\ note = <<>>
    /\ emitted = <<>>
    /\ start = [fs |-> fs, dirs |-> dirs]
    /\ scanStart = [fs |-> fs, order |-> <<>>]
    /\ envOps = 0

JanInit ==
    /\ jpc = "boot"
    /\ jcfg \in {Settings(d, f, o) : d \in BOOLEAN, f \in FolderMaps, o \in {"off", "on"}}
    /\ dirs \in {{}, {Root}, {Root} \cup FolderValues(jcfg.folders)}
    /\ fs \in InitialTrees(dirs)
    /\ cur = [src |-> NoPath, dest |-> NoPath]
    /\ JanFresh

\* the janitor is not part of the behaviour
JanIdle ==
    /\ jpc = "off"
    /\ jcfg = Settings(FALSE, DefaultFolders, "off")
    /\ dirs = {}
    /\ fs = FsOf({}, {}, {})
    /\ cur = [src |-> NoPath, dest |-> NoPath]
    /\ JanFresh

\* the supervisor is not part of the behaviour
SupIdle ==
    /\ mpc = "off"
    /\ enabled = <<>>
    /\ workers = <<>>
    /\ slog = <<>>
    /\ exitStatus = "running"
    /\ exitWhy = "none"

\* Python's None, and a value that is not None
None == [some |-> FALSE]

Some(v) == [some |-> TRUE, v |-> v]

\* the sub-queries of _resolve_last_push
Queries == {"upstream", "reflog", "tip"}

\* dev_git_overview.py:88-101  the last-push part of RepoStatus
StatusOf(last_push, last_push_at) ==
    [last_push |-> last_push, last_push_at |-> last_push_at]

\* the git feature is not part of the behaviour
GitIdle ==
    /\ gpc = "off"
    /\ repo = [hasUpstream |-> FALSE, reflog |-> <<>>, tip |-> ""]
    /\ gtool = [q \in Queries |-> FALSE]
    /\ upstream = None
    /\ gres = StatusOf("", None)

\* discovery is not part of the behaviour
WalkIdle ==
    /\ wpc = "off"
    /\ tree = [dirs |-> {}, git |-> {}]
    /\ wcfg = [max_depth |-> 6, ignore_dirs |-> {}]
    /\ stack = <<>>
    /\ visited = <<>>
    /\ found = <<>>

\* the scan cycle is not part of the behaviour
CycIdle ==
    /\ cpc = "off"
    /\ cobs = "off"
    /\ facts = <<>>
    /\ repos = <<>>
    /\ ri = 0
    /\ statuses = <<>>
    /\ cnow = 0
    /\ markdown = None
    /\ gnote = <<>>
    /\ cwrote = "none"
    /\ ccycle = 0

\* the Dev Git Overview is not part of the behaviour
DevIdle == GitIdle /\ WalkIdle /\ CycIdle

\* download_janitor.py:35-54  run_forever up to its loop: _bootstrap creates
\* the root and every configured folder, whatever dry_run says
JBootstrap ==
    /\ jpc = "boot"
    /\ dirs' = dirs \cup {Root} \cup FolderValues(jcfg.folders)
    /\ jpc' = "scan_start"
    /\ UNCHANGED <<jcfg, fs, now, entries, moved_count, skipped, moves, failures,
                   cur, jerr, cycle, note, emitted, start, scanStart, envOps>>
    /\ UNCHANGED <<supVars, devVars>>

\* download_janitor.py:57-64  the locals are reset and the root is listed;
\* iterdir() raises when the root cannot be read
JScanStart ==
    /\ jpc = "scan_start"
    /\ \E listed \in BOOLEAN :
        IF listed
        THEN /\ \E order \in Listings(fs, dirs) :
                    /\ entries' = order
                    /\ scanStart' = [fs |-> fs, order |-> order]
             /\ jpc' = "examine"
             /\ UNCHANGED jerr
        ELSE /\ jpc' = "crashed"
             /\ jerr' = "OSError(iterdir)"
             /\ UNCHANGED <<entries, scanStart>>
    /\ moved_count' = 0
    /\ skipped' = 0
    /\ moves' = <<>>
    /\ failures' = <<>>
    /\ UNCHANGED <<jcfg, fs, dirs, now, cur, cycle, note, emitted, start, envOps>>
    /\ UNCHANGED <<supVars, devVars>>

\* download_janitor.py:64-91  one entry up to its resolved destination; in
\* dry-run the move is recorded here and nothing is touched
JExamine ==
    /\ jpc = "examine" /\ entries # <<>>
    /\ \E stat \in {"ok", "EACCES"} :
        LET name == Head(entries)
            d == Decide(fs, dirs, jcfg, now, name, stat)
        IN
        CASE d.kind = "dir" ->
                /\ entries' = Tail(entries)
                /\ UNCHANGED <<jpc, moved_count, skipped, moves, cur, jerr>>
          [] d.kind = "skip" ->
                /\ skipped' = skipped + 1
                /\ entries' = Tail(entries)
                /\ UNCHANGED <<jpc, moved_count, moves, cur, jerr>>
          [] d.kind = "raise" ->
                /\ jpc' = "crashed"
                /\ jerr' = d.err
                /\ UNCHANGED <<entries, moved_count, skipped, moves, cur>>
          [] d.kind = "move" /\ jcfg.dry_run ->
                /\ moved_count' = moved_count + 1
                /\ moves' = Append(moves, <<Pth(Root, name), d.dest>>)
                /\ entries' = Tail(entries)
                /\ UNCHANGED <<jpc, skipped, cur, jerr>>
          [] d.kind = "move" /\ ~jcfg.dry_run ->
                /\ cur' = [src |-> Pth(Root, name), dest |-> d.dest]
                /\ jpc' = "ensure_dir"
                /\ UNCHANGED <<entries, moved_count, skipped, moves, jerr>>
    /\ UNCHANGED <<jcfg, fs, dirs, now, failures, cycle, note, emitted, start, scanStart, envOps>>
    /\ UNCHANGED <<supVars, devVars>>

\* fs.py:60  atomic_move: ensure_dir(dest.parent)
JEnsureDir ==
    /\ jpc = "ensure_dir"
    /\ dirs' = EnsureDir(dirs, cur.dest.dir)
    /\ jpc' = "replace"
    /\ UNCHANGED <<jcfg, fs, now, entries, moved_count, skipped, moves, failures,
                   cur, jerr, cycle, note, emitted, start, scanStart, envOps>>
    /\ UNCHANGED <<supVars, devVars>>

\* fs.py:61 and download_janitor.py:93-99  os.replace and what follows it: a
\* move is counted, a failure (the source is gone, or the rename is refused)
\* is logged and the loop goes on
JReplace ==
    /\ jpc = "replace"
    /\ \E refused \in BOOLEAN :
        IF refused \/ ~Exists(fs, cur.src)
        THEN /\ failures' = Append(failures, <<cur.src, cur.dest>>)
             /\ UNCHANGED <<fs, moved_count, moves>>
        ELSE /\ fs' = OsReplace(fs, cur.src, cur.dest)
             /\ moved_count' = moved_count + 1
             /\ moves' = Append(moves, <<cur.src, cur.dest>>)
             /\ UNCHANGED failures
    /\ entries' = Tail(entries)
    /\ jpc' = "examine"
    /\ UNCHANGED <<jcfg, dirs, now, skipped, cur, jerr, cycle, note, emitted, start, scanStart, envOps>>
    /\ UNCHANGED <<supVars, devVars>>

\* download_janitor.py:132-146 and obsidian.py:59-65  the section of a cycle:
\* the time in its heading, the counts, the moves
Summary(t, moved, skip, mv) ==
    [ts |-> t, moved |-> moved, skipped |-> skip, moves |-> mv]

\* a write that leaves the new section alone in the note
OverwriteInstead(content, section) == <<section>>

\* obsidian.py:37-45  append_markdown: the file is opened with "a"
AppendMarkdown(content, section) == Append(content, section)

\* download_janitor.py:112-147  what _maybe_write_obsidian hands to
\* append_markdown: nothing when the sink is off or no move was made
EmittedAfter(cfg, e, t, mv, moved, skip) ==
    IF cfg.obsidian = "on" /\ mv # <<>>
    THEN Append(e, Summary(t, moved, skip, mv))
    ELSE e

\* download_janitor.py:104-150  _maybe_write_obsidian: nothing when the sink
\* is off or no move was made; a failed write is logged and swallowed
NoteAfter(cfg, n, t, mv, moved, skip, wrote) ==
    IF cfg.obsidian = "on" /\ mv # <<>> /\ wrote
    THEN AppendMarkdown(n, Summary(t, moved, skip, mv))
    ELSE n

\* download_janitor.py:101-102 and :48  the summary, the note, the sleep
JScanDone ==
    /\ jpc = "examine" /\ entries = <<>>
    /\ \E wrote \in BOOLEAN :
        note' = NoteAfter(jcfg, note, now, moves, moved_count, skipped, wrote)
    /\ emitted' = EmittedAfter(jcfg, emitted, now, moves, moved_count, skipped)
    /\ cycle' = cycle + 1
    /\ jpc' = "sleep"
    /\ UNCHANGED <<jcfg, fs, dirs, now, entries, moved_count, skipped, moves,
                   failures, cur, jerr, start, scanStart, envOps>>
    /\ UNCHANGED <<supVars, devVars>>

\* download_janitor.py:46-48  time.sleep(scan_interval_seconds), next cycle
JSleep ==
    /\ jpc = "sleep" /\ cycle < MaxCycles
    /\ now' = now + jcfg.scan_interval_seconds
    /\ jpc' = "scan_start"
    /\ UNCHANGED <<jcfg, fs, dirs, entries, moved_count, skipped, moves, failures,
                   cur, jerr, cycle, note, emitted, start, scanStart, envOps>>
    /\ UNCHANGED <<supVars, devVars>>

\* main.py:34-36, :51  the process ends (a signal): the daemon thread stops
\* wherever its scan is
JKill ==
    /\ jpc \in {"examine", "ensure_dir", "replace"}
    /\ jpc' = "killed"
    /\ UNCHANGED <<jcfg, fs, dirs, now, entries, moved_count, skipped, moves,
                   failures, cur, jerr, cycle, note, emitted, start, scanStart, envOps>>
    /\ UNCHANGED <<supVars, devVars>>

InitJan == SupIdle /\ JanInit /\ DevIdle

NextJan ==
    \/ JBootstrap
    \/ JScanStart
    \/ JExamine
    \/ JEnsureDir
    \/ JReplace
    \/ JScanDone
    \/ JSleep
    \/ JKill

SpecJan == InitJan /\ [][NextJan]_vars

(***************************************************************************)
(* Other processes working in the same tree                                *)
(***************************************************************************)
\* Another process acts on the paths the scan is working on. What it does to
\* other paths commutes with the scan's steps until the scan reaches them, so
\* it is taken at that moment: before an entry's stat(), and between
\* ensure_dir and os.replace (ensure_dir touches no file).

\* the loose file the scan is looking at, or is about to rename
EntryInHand ==
    IF jpc = "examine" /\ entries # <<>> THEN Pth(Root, Head(entries))
    ELSE IF jpc = "replace" THEN cur.src
    ELSE NoPath

\* another process creates a file at the destination the scan has resolved
\* and not yet renamed onto
EnvCreate ==
    /\ jpc = "replace" /\ envOps < MaxEnvOps
    /\ ~Exists(fs, cur.dest)
    /\ fs' = [q \in DOMAIN fs \cup {cur.dest} |->
                IF q = cur.dest
                THEN FileAt(Pth("(elsewhere)", Nm("created", <<envOps + 1>>, "")), now)
                ELSE fs[q]]
    /\ envOps' = envOps + 1
    /\ UNCHANGED <<jpc, jcfg, dirs, now, entries, moved_count, skipped, moves,
                   failures, cur, jerr, cycle, note, emitted, start, scanStart>>
    /\ UNCHANGED <<supVars, devVars>>

\* another process removes the loose file in hand
EnvDelete ==
    /\ envOps < MaxEnvOps
    /\ Exists(fs, EntryInHand)
    /\ fs' = [q \in DOMAIN fs \ {EntryInHand} |-> fs[q]]
    /\ envOps' = envOps + 1
    /\ UNCHANGED <<jpc, jcfg, dirs, now, entries, moved_count, skipped, moves,
                   failures, cur, jerr, cycle, note, emitted, start, scanStart>>
    /\ UNCHANGED <<supVars, devVars>>

NextJanEnv ==
    \/ JBootstrap
    \/ JScanStart
    \/ JExamine
    \/ JEnsureDir
    \/ JReplace
    \/ JScanDone
    \/ JSleep
    \/ JKill
    \/ EnvCreate
    \/ EnvDelete

\* the feature runs live on a bootstrapped tree of documents and partial
\* downloads that other processes share
InitJanEnv ==
    /\ InitJan
    /\ ~jcfg.dry_run
    /\ jcfg.obsidian = "off"
    /\ dirs = {Root} \cup FolderValues(jcfg.folders)
    /\ \A p \in DOMAIN fs : p.name.ext \in {"pdf", "part"}

SpecJanEnv == InitJanEnv /\ [][NextJanEnv]_vars

(***************************************************************************)
(* unique_target_path on its own: a destination folder holding any of a    *)
(* family of colliding names, and a file name to place in it               *)
(***************************************************************************)
\* names that may already be in the destination folder
Colliders ==
    {Nm("report", <<>>, "pdf"), Nm("report", <<2, 2>>, "pdf"),
     Nm("notes", <<>>, ""), Nm("notes", <<2>>, "")}
        \cup {Nm("report", <<i>>, "pdf") : i \in 2..MaxSuffix}

\* file names to place
Arrivals == {Nm("report", <<>>, "pdf"), Nm("report", <<2>>, "pdf"), Nm("notes", <<>>, "")}

InitUnique ==
    /\ SupIdle
    /\ DevIdle
    /\ jpc = "resolve"
    /\ jcfg = Settings(FALSE, DefaultFolders, "off")
    /\ dirs = {Root, "Docs"}
    /\ fs \in {FsOf({}, {}, {Pth("Docs", n) : n \in D}) : D \in SUBSET Colliders}
    /\ cur \in {[src |-> Pth(Root, n), dest |-> NoPath] : n \in Arrivals}
    /\ JanFresh

\* download_janitor.py:85  dest = unique_target_path(dest_dir, name)
UResolve ==
    /\ jpc = "resolve"
    /\ cur' = [cur EXCEPT !.dest = UniqueTargetPath(fs, "Docs", cur.src.name)]
    /\ jpc' = "resolved"
    /\ UNCHANGED <<jcfg, fs, dirs, now, entries, moved_count, skipped, moves,
                   failures, jerr, cycle, note, emitted, start, scanStart, envOps>>
    /\ UNCHANGED <<supVars, devVars>>

NextUnique == UResolve

SpecUnique == InitUnique /\ [][NextUnique]_vars

(***************************************************************************)
(* Downloads Janitor: classification and destination folder                *)
(***************************************************************************)
\* extensions of the files to classify: one or two of each category, in
\* lower and upper case, none, and unknown ones
Extensions ==
    {"png", "JPG", "mp4", "mp3", "pdf", "PDF", "docx", "zip", "tar", "py", "dmg",
     "", "xyz", "torrent", "ttf"}

InitDest ==
    /\ SupIdle
    /\ DevIdle
    /\ jpc = "classify"
    /\ jcfg \in {Settings(FALSE, f, "off") : f \in FolderMaps \cup {DefaultFolders}}
    /\ dirs = {Root}
    /\ fs = FsOf({}, {}, {})
    /\ cur \in {[src |-> Pth(Root, Nm("file", <<>>, e)), dest |-> NoPath] : e \in Extensions}
    /\ JanFresh

\* download_janitor.py:83-84  key = self._classify(entry);
\* dest_dir = root / cfg.folders.get(key, cfg.folders["other"])
DResolve ==
    /\ jpc = "classify"
    /\ LET d == DestFolder(jcfg.folders, Classify(cur.src.name)) IN
        IF d.ok
        THEN /\ cur' = [cur EXCEPT !.dest = Pth(d.folder, cur.src.name)]
             /\ jpc' = "classified"
             /\ UNCHANGED jerr
        ELSE /\ jpc' = "crashed"
             /\ jerr' = "KeyError"
             /\ UNCHANGED cur
    /\ UNCHANGED <<jcfg, fs, dirs, now, entries, moved_count, skipped, moves,
                   failures, cycle, note, emitted, start, scanStart, envOps>>
    /\ UNCHANGED <<supVars, devVars>>

NextDest == DResolve

SpecDest == InitDest /\ [][NextDest]_vars

(***************************************************************************)
(* Dev Git Overview: last-push resolution                                  *)
(***************************************************************************)
\* dev_git_overview.py:113  "-n", "100"
ReflogLimit == 100

\* git's --date=iso-strict texts the model's repositories carry (the first
\* two name the same instant), a text without offset, and one that is no date
IsoTexts ==
    {"2024-05-01T10:00:00+02:00", "2024-05-01T08:00:00+00:00",
     "2024-05-03T09:00:00", "not-a-date"}

\* datetime.fromisoformat: wall-clock hours since 2024-05-01T00:00 and the
\* UTC offset in hours; "naive" when the text carries no offset
FromIsoFormat(text) ==
    CASE text = "2024-05-01T10:00:00+02:00" -> Some([wall |-> 10, off |-> "+02:00"])
      [] text = "2024-05-01T08:00:00+00:00" -> Some([wall |-> 8, off |-> "+00:00"])
      [] text = "2024-05-03T09:00:00" -> Some([wall |-> 57, off |-> "naive"])
      [] OTHER -> None

\* dev_git_overview.py:146-153  _parse_git_datetime
ParseGitDatetime(value) ==
    LET parsed == FromIsoFormat(value) IN
    IF ~parsed.some THEN None
    ELSE IF parsed.v.off = "naive" THEN Some([parsed.v EXCEPT !.off = "+00:00"])
    ELSE parsed

\* reflog subjects (%gs)
Subjects ==
    {"update by push", "refs/remotes/origin/main: UPDATE BY PUSH (forced)",
     "fetch origin: fast-forward"}

\* str.lower() on the subjects
LowerSubject(message) ==
    CASE message = "refs/remotes/origin/main: UPDATE BY PUSH (forced)"
            -> "refs/remotes/origin/main: update by push (forced)"
      [] OTHER -> message

\* dev_git_overview.py:120  "update by push" in message.lower()
HasPushTag(message) ==
    LowerSubject(message)
        \in {"update by push", "refs/remotes/origin/main: update by push (forced)"}

\* one line of the reflog output: "<when>|<subject>", or a line with no "|"
ReflogLines ==
    {[bar |-> TRUE, when |-> w, message |-> m] :
        w \in {"2024-05-01T10:00:00+02:00", "2024-05-03T09:00:00"}, m \in Subjects}
        \cup {[bar |-> FALSE, when |-> "", message |-> ""]}

\* dev_git_overview.py:116-121  the first line with "|" whose subject carries
\* the push tag: its index, 0 when there is none
RECURSIVE FirstPushFrom(_, _)
FirstPushFrom(lines, i) ==
    IF i > Len(lines) THEN 0
    ELSE IF lines[i].bar /\ HasPushTag(lines[i].message) THEN i
    ELSE FirstPushFrom(lines, i + 1)

\* dev_git_overview.py:132-144  _run_git: None when the tool cannot be run or
\* exits non-zero, its output otherwise
RunGit(failed, output) == IF failed THEN None ELSE Some(output)

Min(a, b) == IF a < b THEN a ELSE b

GitInit ==
    /\ gpc = "upstream"
    /\ repo \in [hasUpstream : BOOLEAN,
                 reflog : SeqsUpTo(ReflogLines, MaxReflog),
                 tip : IsoTexts \cup {""}]
    /\ repo.hasUpstream \/ (repo.reflog = <<>> /\ repo.tip = "")
    /\ gtool \in [Queries -> BOOLEAN]
    /\ upstream = None
    /\ gres = StatusOf("", None)

\* dev_git_overview.py:104-109  the upstream lookup: git fails when the tool
\* fails and when the branch has no upstream
GUpstream ==
    /\ gpc = "upstream"
    /\ LET out == RunGit(gtool["upstream"] \/ ~repo.hasUpstream, "origin/main") IN
        /\ upstream' = out
        /\ IF ~out.some
           THEN /\ gres' = StatusOf("no upstream", None)
                /\ gpc' = "done"
           ELSE /\ gpc' = "reflog"
                /\ UNCHANGED gres
    /\ UNCHANGED <<repo, gtool>>
    /\ UNCHANGED <<supVars, janVars, walkVars, cycVars>>

\* dev_git_overview.py:111-121  the reflog query and the scan of its lines
GReflog ==
    /\ gpc = "reflog"
    /\ LET out == RunGit(gtool["reflog"],
                         SubSeq(repo.reflog, 1, Min(ReflogLimit, Len(repo.reflog))))
           hit == IF out.some THEN FirstPushFrom(out.v, 1) ELSE 0
       IN
        IF hit # 0
        THEN /\ gres' = StatusOf(out.v[hit].when, ParseGitDatetime(out.v[hit].when))
             /\ gpc' = "done"
        ELSE /\ gpc' = "tip"
             /\ UNCHANGED gres
    /\ UNCHANGED <<repo, gtool, upstream>>
    /\ UNCHANGED <<supVars, janVars, walkVars, cycVars>>

\* dev_git_overview.py:123-130  the tip commit time, or "unknown"
GTip ==
    /\ gpc = "tip"
    /\ LET out == RunGit(gtool["tip"], repo.tip) IN
        IF out.some /\ out.v # ""
        THEN gres' = StatusOf(out.v, ParseGitDatetime(out.v))
        ELSE gres' = StatusOf("unknown", None)
    /\ gpc' = "done"
    /\ UNCHANGED <<repo, gtool, upstream>>
    /\ UNCHANGED <<supVars, janVars, walkVars, cycVars>>

InitGit == SupIdle /\ JanIdle /\ GitInit /\ WalkIdle /\ CycIdle

NextGit ==
    \/ GUpstream
    \/ GReflog
    \/ GTip

SpecGit == InitGit /\ [][NextGit]_vars

(***************************************************************************)
(* Dev Git Overview: discovery                                             *)
(***************************************************************************)
\* names a directory under the root may carry
DirNames == {"a", "b", "node_modules"}

\* dev_git_overview.py:228  the default ignore_dirs
DefaultIgnoreDirs == {"node_modules", ".venv", "venv", "__pycache__"}

\* max_depth values of the model's configurations; negative means no limit
MaxDepths == {-1, 0, 1}

\* a directory is the sequence of names leading to it from the root
DirsUpTo(n) == UNION {[1..k -> DirNames] : k \in 1..n}

Prefixes(p) == {SubSeq(p, 1, k) : k \in 0..Len(p)}

\* the directories a tree with the given deepest directories is made of
TreeOf(leaves) == UNION {Prefixes(p) : p \in leaves}

\* the trees of the model: a branch of any depth and a directory of the root
\* beside it, at most MaxRepos of their directories holding a ".git"
\* subdirectory
Trees ==
    UNION {
        {[dirs |-> TreeOf(L), git |-> G] :
            G \in {X \in SUBSET TreeOf(L) : Cardinality(X) <= MaxRepos}}
        : L \in {{p, q} : p \in DirsUpTo(MaxTreeDepth), q \in DirsUpTo(1)}}

\* the subdirectories of p that are not the marker
Children(t, p) ==
    {q \in t.dirs : Len(q) = Len(p) + 1 /\ SubSeq(q, 1, Len(p)) = p}

\* dev_git_overview.py:70  depth = len(current.parts) - root_depth
Depth(current) == Len(current)

\* dev_git_overview.py:72  cfg.max_depth >= 0 and depth > cfg.max_depth
TooDeep(cfg, current) == cfg.max_depth >= 0 /\ Depth(current) > cfg.max_depth

\* dev_git_overview.py:76  ".git" in dirnames
HasMarker(t, current) == current \in t.git

\* a walk that records a repository and still goes on into it
DescendIntoRepos(t, cfg, current) ==
    IF TooDeep(cfg, current) THEN {}
    ELSE {q \in Children(t, current) : q[Len(q)] \notin cfg.ignore_dirs}

\* a walk whose depth test lets one more level through
DescendOneTooFar(t, cfg, current) ==
    IF cfg.max_depth >= 0 /\ Depth(current) > cfg.max_depth + 1 THEN {}
    ELSE IF HasMarker(t, current) THEN {}
    ELSE {q \in Children(t, current) : q[Len(q)] \notin cfg.ignore_dirs}

\* dev_git_overview.py:72-81  what is left in dirnames when the loop body is
\* done with the directory: the directories os.walk goes on into
Descend(t, cfg, current) ==
    IF TooDeep(cfg, current) THEN {}
    ELSE IF HasMarker(t, current) THEN {}
    ELSE {q \in Children(t, current) : q[Len(q)] \notin cfg.ignore_dirs}

\* dev_git_overview.py:72-77  the directory is appended to repos
Recorded(t, cfg, current) == ~TooDeep(cfg, current) /\ HasMarker(t, current)

WalkSettings(max_depth) == [max_depth |-> max_depth, ignore_dirs |-> DefaultIgnoreDirs]

WalkInit ==
    /\ wpc = "walk"
    /\ tree \in Trees
    /\ wcfg \in {WalkSettings(d) : d \in MaxDepths}
    /\ stack = <<<<>>>>
    /\ visited = <<>>
    /\ found = <<>>

\* dev_git_overview.py:68-81  one turn of the os.walk loop: the next directory
\* is listed and handed to the body; what the body leaves in dirnames is
\* walked next, before the directories still pending, in the order the
\* listing gave
WVisit ==
    /\ wpc = "walk" /\ stack # <<>>
    /\ LET current == Head(stack) IN
        /\ visited' = Append(visited, current)
        /\ found' = IF Recorded(tree, wcfg, current) THEN Append(found, current) ELSE found
        /\ \E order \in Perms(Descend(tree, wcfg, current)) :
            stack' = order \o Tail(stack)
    /\ UNCHANGED <<wpc, tree, wcfg>>
    /\ UNCHANGED <<supVars, janVars, gitVars, cycVars>>

\* dev_git_overview.py:83  return repos
WReturn ==
    /\ wpc = "walk" /\ stack = <<>>
    /\ wpc' = "done"
    /\ UNCHANGED <<tree, wcfg, stack, visited, found>>
    /\ UNCHANGED <<supVars, janVars, gitVars, cycVars>>

InitWalk == SupIdle /\ JanIdle /\ GitIdle /\ WalkInit /\ CycIdle

NextWalk ==
    \/ WVisit
    \/ WReturn

SpecWalk == InitWalk /\ [][NextWalk]_vars

(***************************************************************************)
(* Dev Git Overview: inspection, table and note                            *)
(***************************************************************************)
\* dev_git_overview.py:103-130  _resolve_last_push as one evaluation
ResolveLastPush(r, tool) ==
    LET up == RunGit(tool["upstream"] \/ ~r.hasUpstream, "origin/main")
        log == RunGit(tool["reflog"],
                      SubSeq(r.reflog, 1, Min(ReflogLimit, Len(r.reflog))))
        hit == IF log.some THEN FirstPushFrom(log.v, 1) ELSE 0
        tip == RunGit(tool["tip"], r.tip)
    IN  IF ~up.some THEN StatusOf("no upstream", None)
        ELSE IF hit # 0
        THEN StatusOf(log.v[hit].when, ParseGitDatetime(log.v[hit].when))
        ELSE IF tip.some /\ tip.v # "" THEN StatusOf(tip.v, ParseGitDatetime(tip.v))
        ELSE StatusOf("unknown", None)

\* dev_git_overview.py:26-31  RepoStatus
RepoStatus(project, branch, last_push, last_push_at, dirty_count) ==
    [project |-> project, branch |-> branch, last_push |-> last_push,
     last_push_at |-> last_push_at, dirty_count |-> dirty_count]

\* what git answers in one repository: the branch query (branchFails: not a
\* repository, tool unavailable, I/O error), the non-empty lines of
\* `status --porcelain`, and the upstream with the tool's failures on the
\* last-push queries
Facts(branchFails, branch, statusFails, porcelain, r, tool) ==
    [branchFails |-> branchFails, branch |-> branch, statusFails |-> statusFails,
     porcelain |-> porcelain, repo |-> r, tool |-> tool]

ToolOk == [q \in Queries |-> FALSE]

PushedRepo ==
    [hasUpstream |-> TRUE,
     reflog |-> <<[bar |-> TRUE, when |-> "2024-05-01T10:00:00+02:00",
                   message |-> "update by push"]>>,
     tip |-> "2024-05-03T09:00:00"]

BareRepo == [hasUpstream |-> FALSE, reflog |-> <<>>, tip |-> ""]

\* the repositories of the model's cycles
Profiles ==
    {Facts(TRUE, "", TRUE, 0, BareRepo, ToolOk),
     Facts(FALSE, "main", FALSE, 0, PushedRepo, ToolOk),
     Facts(FALSE, "main", FALSE, MaxDirty, PushedRepo, ToolOk),
     Facts(FALSE, "HEAD", TRUE, MaxDirty, BareRepo, ToolOk),
     Facts(FALSE, "dev", FALSE, 1, [PushedRepo EXCEPT !.reflog = <<>>],
           [ToolOk EXCEPT !["reflog"] = TRUE])}

\* an inspection that hands back a record for a repository whose branch
\* query failed
InspectPartial(path, f) ==
    LET lp == ResolveLastPush(f.repo, f.tool) IN
    Some(RepoStatus(path[Len(path)], f.branch, lp.last_push, lp.last_push_at,
                    IF f.statusFails THEN 0 ELSE f.porcelain))

\* dev_git_overview.py:85-101  _inspect_repo
InspectRepo(path, f) ==
    LET branch == RunGit(f.branchFails, f.branch)
        status_output == RunGit(f.statusFails, f.porcelain)
        dirty_count == IF status_output.some THEN status_output.v ELSE 0
        lp == ResolveLastPush(f.repo, f.tool)
    IN  IF ~branch.some THEN None
        ELSE Some(RepoStatus(path[Len(path)], branch.v, lp.last_push,
                             lp.last_push_at, dirty_count))

\* a loop that gives up its records when one inspection returns None
CollectOrReset(acc, status) == IF status.some THEN Append(acc, status.v) ELSE <<>>

\* dev_git_overview.py:56-57
Collect(acc, status) == IF status.some THEN Append(acc, status.v) ELSE acc

\* names of the repositories' directories
ProjectNames == {"alfred", "Beta"}

\* str.lower() on the project names
LowerName(n) == CASE n = "Beta" -> "beta" [] OTHER -> n

\* the order of Python's str comparison on the lowered names
NameRank(l) == CASE l = "alfred" -> 1 [] l = "beta" -> 2 [] OTHER -> 3

SortKey(status) == NameRank(LowerName(status.project))

\* list.sort is stable: a record goes behind the records whose key is not
\* greater than its own
RECURSIVE InsertByKey(_, _)
InsertByKey(sorted, s) ==
    IF sorted = <<>> THEN <<s>>
    ELSE IF SortKey(Head(sorted)) <= SortKey(s)
    THEN <<Head(sorted)>> \o InsertByKey(Tail(sorted), s)
    ELSE <<s>> \o sorted

\* dev_git_overview.py:59  statuses.sort(key=lambda item: item.project.lower())
RECURSIVE SortStatuses(_)
SortStatuses(list) ==
    IF list = <<>> THEN <<>>
    ELSE InsertByKey(SortStatuses(SubSeq(list, 1, Len(list) - 1)), list[Len(list)])

\* dev_git_overview.py:213 and :215, in hours: timedelta(days=7), timedelta(hours=24)
StaleHours == 168

DirtyHours == 24

\* the UTC offset of an aware datetime, in hours
OffsetHours(off) == CASE off = "+02:00" -> 2 [] OTHER -> 0

\* dev_git_overview.py:210  astimezone(timezone.utc), as hours since the epoch
AsUtc(dt) == dt.wall - OffsetHours(dt.off)

\* dev_git_overview.py:218  ", ".join(flags) if flags else "-"
JoinFlags(flags) ==
    CASE flags = <<>> -> "-"
      [] flags = <<"stale>7d">> -> "stale>7d"
      [] flags = <<"dirty+24h">> -> "dirty+24h"
      [] OTHER -> "stale>7d, dirty+24h"

\* flags whose tests let the boundary through
BuildFlagsInclusive(status, now_utc) ==
    IF ~status.last_push_at.some THEN "-"
    ELSE LET age == now_utc - AsUtc(status.last_push_at.v) IN
         JoinFlags((IF age >= StaleHours THEN <<"stale>7d">> ELSE <<>>)
                   \o (IF age >= DirtyHours /\ status.dirty_count > 0
                       THEN <<"dirty+24h">> ELSE <<>>))

\* dev_git_overview.py:206-218  _build_flags
BuildFlags(status, now_utc) ==
    IF ~status.last_push_at.some THEN "-"
    ELSE LET age == now_utc - AsUtc(status.last_push_at.v) IN
         JoinFlags((IF age > StaleHours THEN <<"stale>7d">> ELSE <<>>)
                   \o (IF age > DirtyHours /\ status.dirty_count > 0
                       THEN <<"dirty+24h">> ELSE <<>>))

\* dev_git_overview.py:220-221  _md_cell: none of the model's texts holds a
\* "|" or outer blanks, an empty text becomes a dash
MdCell(value) == IF value = "" THEN "-" ELSE value

\* dev_git_overview.py:191-203  one row of the table
TableRow(status, now_utc) ==
    [project |-> MdCell(status.project),
     branch |-> MdCell(status.branch),
     last_push |-> MdCell(status.last_push),
     uncommitted |-> IF status.dirty_count > 0
                     THEN <<"yes", status.dirty_count>> ELSE <<"no">>,
     flag |-> MdCell(BuildFlags(status, now_utc))]

\* dev_git_overview.py:186  "| - | - | - | - | - |"
PlaceholderRow ==
    [project |-> "-", branch |-> "-", last_push |-> "-", uncommitted |-> <<"-">>, flag |-> "-"]

\* dev_git_overview.py:180-204  _build_table_lines, below the two header lines
BuildTableLines(list, now_utc) ==
    IF list = <<>> THEN <<PlaceholderRow>>
    ELSE [i \in DOMAIN list |-> TableRow(list[i], now_utc)]

\* obsidian.py:59-65  format_section: the heading with its timestamp, the lines
FormatSection(title, lines, t) == [title |-> title, ts |-> t, lines |-> lines]

\* dev_git_overview.py:63-83  the repositories a whole walk from p records
RECURSIVE WalkFrom(_, _, _)
WalkFrom(t, cfg, p) ==
    (IF Recorded(t, cfg, p) THEN {p} ELSE {})
        \cup UNION {WalkFrom(t, cfg, q) : q \in Descend(t, cfg, p)}

\* the roots of the model's cycles: missing, or holding some of the projects
\* as directories, at most MaxRepos of them repositories
CycleTrees ==
    {[dirs |-> {}, git |-> {}]}
        \cup UNION {
            {[dirs |-> {<<>>} \cup {<<n>> : n \in S}, git |-> {<<n>> : n \in G}] :
                G \in {X \in SUBSET S : Cardinality(X) <= MaxRepos}}
            : S \in SUBSET ProjectNames}

\* a directory that is no repository answers like one whose branch query fails
NoFacts == Facts(TRUE, "", TRUE, 0, BareRepo, ToolOk)

\* dev_git_overview.py:170  the default title
Title == "Alfred - Dev Git Overview"

\* the clock, in hours since 2024-05-01T00:00 UTC, when the feature starts
CycleClockAtStart == 32

\* a write that adds the section behind what the note holds
AppendInstead(content, section, outcome) ==
    CASE outcome = "ok" -> Append(content, section)
      [] outcome = "truncated" -> <<>>
      [] OTHER -> content

\* obsidian.py:48-56  replace_markdown on the note's sections: the file is
\* opened with "w" and written; mkdir or open may fail and leave the note as
\* it was, the write may fail after open has emptied the file
ReplaceMarkdown(content, section, outcome) ==
    CASE outcome = "ok" -> <<section>>
      [] outcome = "truncated" -> <<>>
      [] OTHER -> content

CycInit ==
    /\ cpc = "start"
    /\ cobs \in {"off", "on", "untargeted"}
    /\ tree \in CycleTrees
    /\ wcfg = WalkSettings(6)
    /\ facts \in [{<<n>> : n \in ProjectNames} -> Profiles \cup {NoFacts}]
    /\ \A p \in DOMAIN facts : p \notin tree.git => facts[p] = NoFacts
    /\ repos = <<>>
    /\ ri = 0
    /\ statuses = <<>>
    /\ cnow = CycleClockAtStart
    /\ markdown = None
    /\ gnote \in {<<>>, <<FormatSection(Title, <<PlaceholderRow>>, 0)>>}
    /\ cwrote = "none"
    /\ ccycle = 0
    /\ wpc = "off" /\ stack = <<>> /\ visited = <<>> /\ found = <<>>

\* dev_git_overview.py:47-52  the root test and discovery
CStart ==
    /\ cpc = "start"
    /\ IF <<>> \notin tree.dirs
       THEN /\ cpc' = "sleep"
            /\ cwrote' = "no_root"
            /\ ccycle' = ccycle + 1
            /\ repos' = <<>>
       ELSE /\ cpc' = "inspect"
            /\ repos' \in Perms(WalkFrom(tree, wcfg, <<>>))
            /\ UNCHANGED <<cwrote, ccycle>>
    /\ ri' = 0
    /\ statuses' = <<>>
    /\ markdown' = None
    /\ UNCHANGED <<cobs, facts, cnow, gnote>>
    /\ UNCHANGED <<supVars, janVars, gitVars, walkVars>>

\* dev_git_overview.py:54-57  one turn of the inspection loop
CInspect ==
    /\ cpc = "inspect" /\ ri < Len(repos)
    /\ ri' = ri + 1
    /\ statuses' = Collect(statuses, InspectRepo(repos[ri + 1], facts[repos[ri + 1]]))
    /\ UNCHANGED <<cpc, cobs, facts, repos, cnow, markdown, gnote, cwrote, ccycle>>
    /\ UNCHANGED <<supVars, janVars, gitVars, walkVars>>

\* dev_git_overview.py:59-61, 155-178  the sort, then _maybe_write_obsidian
CFinish ==
    /\ cpc = "inspect" /\ ri = Len(repos)
    /\ statuses' = SortStatuses(statuses)
    /\ IF cobs = "off"
       THEN /\ cwrote' = "disabled"
            /\ UNCHANGED <<markdown, gnote>>
       ELSE IF cobs = "untargeted"
       THEN /\ cwrote' = "no_target"
            /\ UNCHANGED <<markdown, gnote>>
       ELSE LET md == FormatSection(Title, BuildTableLines(statuses', cnow), cnow) IN
            /\ markdown' = Some(md)
            /\ \E outcome \in {"ok", "unwritable", "truncated"} :
                /\ gnote' = ReplaceMarkdown(gnote, md, outcome)
                /\ cwrote' = outcome
    /\ cpc' = "sleep"
    /\ ccycle' = ccycle + 1
    /\ UNCHANGED <<cobs, facts, repos, ri, cnow>>
    /\ UNCHANGED <<supVars, janVars, gitVars, walkVars>>

\* dev_git_overview.py:44  time.sleep: the clock moves on, and one of the
\* repositories may have changed meanwhile
CSleep ==
    /\ cpc = "sleep" /\ ccycle < MaxCycles
    /\ cpc' = "start"
    /\ cnow' \in {cnow + 1, cnow + StaleHours - DirtyHours}
    /\ \/ UNCHANGED facts
       \/ \E p \in tree.git : \E f \in Profiles :
            /\ f # facts[p]
            /\ facts' = [facts EXCEPT ![p] = f]
    /\ UNCHANGED <<cobs, repos, ri, statuses, markdown, gnote, cwrote, ccycle>>
    /\ UNCHANGED <<supVars, janVars, gitVars, walkVars>>

InitCycle == SupIdle /\ JanIdle /\ GitIdle /\ CycInit

NextCycle ==
    \/ CStart
    \/ CInspect
    \/ CFinish
    \/ CSleep

SpecCycle == InitCycle /\ [][NextCycle]_vars

(***************************************************************************)
(* Dev Git Overview: the flags of one repository                           *)
(***************************************************************************)
\* the records the table is rendered from: every last-push time the model's
\* texts parse to, or none, and every dirty count
FlagStatuses ==
    {RepoStatus("alfred", "main", "-", at, d) :
        at \in {None} \cup {ParseGitDatetime(t) : t \in IsoTexts}, d \in 0..MaxDirty}

InitFlags ==
    /\ SupIdle /\ JanIdle /\ GitIdle /\ WalkIdle
    /\ cpc = "render"
    /\ cobs = "off"
    /\ facts = <<>>
    /\ repos = <<>>
    /\ ri = 0
    /\ statuses \in {<<st>> : st \in FlagStatuses}
    /\ cnow \in 0..MaxClock
    /\ markdown = None
    /\ gnote = <<>>
    /\ cwrote = "none"
    /\ ccycle = 0

\* dev_git_overview.py:171-172, 189-204  the table is rendered at the clock's
\* time
FRender ==
    /\ cpc = "render"
    /\ markdown' = Some(FormatSection(Title, BuildTableLines(statuses, cnow), cnow))
    /\ cpc' = "rendered"
    /\ UNCHANGED <<cobs, facts, repos, ri, statuses, cnow, gnote, cwrote, ccycle>>
    /\ UNCHANGED <<supVars, janVars, gitVars, walkVars>>

NextFlags == FRender

SpecFlags == InitFlags /\ [][NextFlags]_vars

Init == SupInit /\ JanIdle /\ DevIdle

Next ==
    \/ MLoad
    \/ MCheckEmpty
    \/ MValidate
    \/ MSpawn
    \/ MPoll
    \/ MSleep
    \/ MSignal
    \/ \E i \in DOMAIN workers : WScanDone(i)
    \/ \E i \in DOMAIN workers : WWake(i)
    \/ \E i \in DOMAIN workers : WRaise(i)
    \/ \E i \in DOMAIN workers : WCaught(i)

Spec == Init /\ [][Next]_vars

\* download_janitor.py:64-94, dev_git_overview.py:134-139: a blocking call of
\* the scan (a filesystem syscall, subprocess.run without a timeout) never
\* returns
WHang(i) ==
    /\ Running /\ i \in DOMAIN workers /\ workers[i].st = "scan"
    /\ workers' = [workers EXCEPT ![i].st = "hung"]
    /\ UNCHANGED <<mpc, enabled, slog, exitStatus, exitWhy>>
    /\ UNCHANGED <<janVars, devVars>>

NextLive ==
    \/ Next
    \/ \E i \in DOMAIN workers : WHang(i)

\* main.py:47-54  every feature runs in a thread of its own: a thread that
\* can take its next step is scheduled
ThreadsFair ==
    \A i \in 1..MaxEnabled :
        /\ WF_vars(WScanDone(i))
        /\ WF_vars(WWake(i))
        /\ WF_vars(WCaught(i))

SpecLive == Init /\ [][NextLive]_vars /\ ThreadsFair

(***************************************************************************)
(* Claims about the supervisor                                             *)
(***************************************************************************)

\* C1: once every started worker has terminated, the process ends with an
\* error indication: the exit taken when no worker is alive carries a
\* non-success status.
C1_AllStoppedExitsWithError ==
    exitWhy = "all_stopped" => exitStatus \notin {"running", "0"}

CrashLinesFor(k) == CountIn(slog, LAMBDA l : l = CrashLine(k))

DeadWorkersFor(k) == CountIn(workers, LAMBDA w : w.key = k /\ w.st = "dead")

\* C2: a worker whose run_forever raises is caught at the thread boundary:
\* one crash line naming its key is written per crashed worker, that worker
\* ends, and no step in which a worker raises or ends changes any sibling.
C2_CrashIsolated ==
    /\ [](\A k \in FEATURES : CrashLinesFor(k) = DeadWorkersFor(k))
    /\ [][\A i \in DOMAIN workers :
            (workers'[i].st # workers[i].st /\ workers'[i].st \in {"raised", "dead"})
                => \A j \in DOMAIN workers : j # i => workers'[j] = workers[j]]_vars

\* a worker has crashed and been logged while its sibling went on to its sleep
C2_Witness ==
    \E i, j \in DOMAIN workers :
        /\ i # j
        /\ workers[i].st = "dead"
        /\ workers[j].st = "sleep"
        /\ CrashLinesFor(workers[i].key) = 1

\* C3: if any enabled key is unknown, wherever it stands in the list, no
\* worker thread is ever spawned.
C3_UnknownKeySpawnsNothing ==
    (\E i \in DOMAIN enabled : enabled[i] \notin FEATURES) => workers = <<>>

\* startup was aborted for an unknown key that follows a valid one
C3_Witness ==
    /\ Len(enabled) >= 2
    /\ enabled[1] \in FEATURES
    /\ enabled[2] \notin FEATURES
    /\ exitWhy = "unknown_feature"
    /\ workers = <<>>

\* C20: a slow or hung scan in one feature blocks only its own worker: with
\* every thread scheduled fairly, each worker completes scan cycles again and
\* again unless the process ends or the worker itself hangs or crashes, and a
\* completed scan is followed by the worker's sleep.
C20_HungScanBlocksOnlyItself ==
    /\ \A j \in 1..MaxEnabled :
        \/ []<>(j \in DOMAIN workers /\ workers[j].st = "sleep")
        \/ <>[](\/ ~Running
                \/ j \notin DOMAIN workers
                \/ workers[j].st \in {"hung", "raised", "dead"})
    /\ [][\A j \in DOMAIN workers :
            (workers[j].st = "scan" /\ workers'[j].st \notin {"scan", "raised", "hung"})
                => workers'[j].st = "sleep"]_vars

\* a worker has gone to its sleep after a scan while its sibling hangs
C20_Witness ==
    \E i, j \in DOMAIN workers :
        /\ i # j
        /\ Running
        /\ workers[i].st = "hung"
        /\ workers[j].st = "sleep"

\* C21: absent a signal, the supervisor never ends the process while a worker
\* is alive: once workers have been started, the only step that ends the
\* process without a signal is taken with no worker alive, and it is the
\* "all stopped" exit.
C21_NoExitWhileWorkerAlive ==
    /\ [](( ~Running /\ exitWhy # "signal" /\ workers # <<>> )
            => /\ exitWhy = "all_stopped"
               /\ \A i \in DOMAIN workers : workers[i].st = "dead")
    /\ [][( Running /\ ~Running' /\ exitWhy' # "signal" /\ workers # <<>> )
            => \A i \in DOMAIN workers : workers[i].st = "dead"]_vars

\* the supervisor has polled and gone to sleep, the process is running, one
\* worker has crashed and its sibling is alive
C21_Witness ==
    \E i, j \in DOMAIN workers :
        /\ Running /\ mpc = "sleep"
        /\ workers[i].st = "dead"
        /\ CrashLine(workers[i].key) \in Range(slog)
        /\ workers[j].st # "dead"

(***************************************************************************)
(* Claims about the Downloads Janitor                                      *)
(***************************************************************************)

\* exceptions raised while one entry is being processed
EntryErrors == {"PermissionError", "KeyError"}

\* C4: a failure while processing one entry is confined to that entry: it is
\* not counted as moved, and it never ends the scan or the worker.
C4_EntryFailureConfined ==
    /\ \A i \in DOMAIN failures : \A j \in DOMAIN moves : failures[i] # moves[j]
    /\ jpc = "crashed" => jerr \notin EntryErrors

\* download_janitor.py:56-102 with dry_run set, run over a whole listing: the
\* report it ends with
RECURSIVE DryScan(_, _, _, _, _, _)
DryScan(fsx, dirsx, cfg, t, order, acc) ==
    IF order = <<>> THEN acc
    ELSE LET name == Head(order)
             d == Decide(fsx, dirsx, cfg, t, name, "ok")
             next ==
                CASE d.kind = "skip" -> [acc EXCEPT !.skipped = @ + 1]
                  [] d.kind = "move" ->
                        [acc EXCEPT !.moved = @ + 1,
                                    !.moves = Append(@, <<Pth(Root, name), d.dest>>)]
                  [] OTHER -> acc
         IN DryScan(fsx, dirsx, cfg, t, Tail(order), next)

Report == [moved |-> moved_count, skipped |-> skipped, moves |-> moves]

EmptyReport == [moved |-> 0, skipped |-> 0, moves |-> <<>>]

\* C5: a live scan in which no rename fails ends with the report a dry-run
\* scan gives from the state the live scan started in.
C5_DryReportEqualsLive ==
    (jpc = "sleep" /\ ~jcfg.dry_run /\ failures = <<>>)
        => Report = DryScan(scanStart.fs, dirs, jcfg, now, scanStart.order, EmptyReport)

\* C6: with dry-run set, from feature start on, no file is renamed or removed
\* and no directory is created.
C6_DryRunMutatesNothing ==
    jcfg.dry_run => (fs = start.fs /\ dirs = start.dirs)

\* the rename in hand has happened: the file that was at the source is at the
\* destination and nothing is at the source
RelocationDone ==
    /\ Exists(fs, cur.src)
    /\ Exists(fs', cur.dest)
    /\ fs'[cur.dest] = fs[cur.src]
    /\ ~Exists(fs', cur.src)
    /\ \A p \in DOMAIN fs \ {cur.src, cur.dest} : Exists(fs', p) /\ fs'[p] = fs[p]

\* C7: a relocation is all-or-nothing at every point, a killed process
\* included: no file is ever at two paths, and every step out of atomic_move
\* either completes the rename or leaves every file where it was.
C7_AllOrNothing ==
    /\ [](\A p, q \in DOMAIN fs : p # q => fs[p].id # fs[q].id)
    /\ [][(jpc \in {"ensure_dir", "replace"} /\ jpc' # jpc)
            => \/ jpc = "replace" /\ jpc' = "examine" /\ RelocationDone
               \/ fs' = fs]_vars

\* the process was killed in the middle of a scan, after one file was moved
\* and after a rename of another was refused
C7_Witness ==
    /\ jpc = "killed"
    /\ entries # <<>>
    /\ Len(moves) = 1
    /\ Exists(fs, moves[1][2])
    /\ ~Exists(fs, moves[1][1])
    /\ fs[moves[1][2]].id = moves[1][1]

\* the name with one more " (i)" group before its extension
Suffixed(n, i) == Nm(n.base, Append(n.nums, i), n.ext)

\* C8: unique_target_path never returns a path that exists in dest_dir when
\* it is called; it returns dest_dir/filename when that is free, otherwise
\* 'stem (i).ext' for the smallest i >= 2 that is free.
C8_LowestFreeSuffix ==
    jpc = "resolved" =>
        LET n == cur.src.name
            taken(x) == Exists(fs, Pth("Docs", x))
        IN /\ cur.dest.dir = "Docs"
           /\ ~taken(cur.dest.name)
           /\ IF ~taken(n) THEN cur.dest.name = n
              ELSE \E i \in 2..(Cardinality(DOMAIN fs) + 1) :
                    /\ cur.dest.name = Suffixed(n, i)
                    /\ \A j \in 2..(i - 1) : taken(Suffixed(n, j))

\* the name and its suffixes (2) and (3) were all taken: (4) was returned
C8_Witness ==
    /\ jpc = "resolved"
    /\ cur.src.name = Nm("report", <<>>, "pdf")
    /\ \A x \in {Nm("report", <<>>, "pdf"), Nm("report", <<2>>, "pdf"),
                  Nm("report", <<3>>, "pdf")} : Exists(fs, Pth("Docs", x))
    /\ cur.dest = Pth("Docs", Nm("report", <<4>>, "pdf"))

\* what the reflog query hands back when the repository has an upstream and
\* the tool answers the lookup and the query
FetchedReflog ==
    IF repo.hasUpstream /\ ~gtool["upstream"] /\ ~gtool["reflog"]
    THEN SubSeq(repo.reflog, 1, Min(ReflogLimit, Len(repo.reflog)))
    ELSE <<>>

PushEntries ==
    {i \in DOMAIN FetchedReflog :
        FetchedReflog[i].bar /\ HasPushTag(FetchedReflog[i].message)}

TipObtainable == repo.hasUpstream /\ ~gtool["tip"] /\ repo.tip # ""

\* C9: last-push resolution follows the precedence: with an upstream
\* configured and a fetched reflog entry whose message contains "update by
\* push" in any case, the result is the timestamp of the most recent such
\* entry; otherwise, when the upstream tip commit time is obtainable, it is
\* that time; "no upstream" with a null timestamp is reported only for a
\* repository with no configured upstream; "unknown" only when nothing is
\* obtainable.
C9_LastPushPrecedence ==
    gpc = "done" =>
        /\ IF repo.hasUpstream /\ PushEntries # {}
           THEN \E i \in PushEntries :
                    /\ \A j \in PushEntries : i <= j
                    /\ gres = StatusOf(FetchedReflog[i].when,
                                       ParseGitDatetime(FetchedReflog[i].when))
           ELSE TipObtainable
                    => gres = StatusOf(repo.tip, ParseGitDatetime(repo.tip))
        /\ gres = StatusOf("no upstream", None) => ~repo.hasUpstream
        /\ gres.last_push = "unknown" => (PushEntries = {} /\ ~TipObtainable)

\* C10: when the git tool fails on every sub-query of last-push resolution
\* (upstream lookup, reflog, tip commit time), the resolution reports the
\* display string "unknown" with a null timestamp.
C10_AllQueriesFailUnknown ==
    (gpc = "done" /\ \A q \in Queries : gtool[q])
        => gres = StatusOf("unknown", None)

\* the files of a tree, whatever their paths
FilesIn(fsx) == {fsx[p].id : p \in DOMAIN fsx}

\* C22: a live scan never overwrites or destroys a file: every rename targets
\* a path at which nothing exists at the moment of the rename, and the step
\* out of atomic_move keeps every file and the number of files, also when
\* another process has created a file at the resolved destination.
C22_RenameNeverOverwrites ==
    [][(jpc = "replace" /\ jpc' = "examine")
        => /\ fs' # fs => ~Exists(fs, cur.dest)
           /\ FilesIn(fs') = FilesIn(fs)
           /\ Cardinality(DOMAIN fs') = Cardinality(DOMAIN fs)]_vars

(***************************************************************************)
(* Claims about classification                                             *)
(***************************************************************************)
\* the category each of the model's extensions belongs to
CategoryOf(ext) ==
    CASE ext \in {"png", "JPG"} -> "images"
      [] ext = "mp4" -> "videos"
      [] ext = "mp3" -> "audio"
      [] ext \in {"pdf", "PDF", "docx"} -> "docs"
      [] ext \in {"zip", "tar"} -> "archives"
      [] ext = "py" -> "code"
      [] ext = "dmg" -> "apps"
      [] OTHER -> "other"

\* C18: classification and destination resolution are total: every
\* extension (any case, empty, unknown) falls into exactly one category,
\* 'other' by default, and for every configured map the destination resolves
\* to the folder of the category, or to the folder of 'other' when the
\* category has no configured folder, without failing.
C18_DestinationTotal ==
    jpc \in {"classified", "crashed"} =>
        LET cat == CategoryOf(cur.src.name.ext)
            folders == jcfg.folders
        IN  /\ cat \in DOMAIN folders =>
                    (jpc = "classified" /\ cur.dest.dir = folders[cat])
            /\ (cat \notin DOMAIN folders /\ "other" \in DOMAIN folders) =>
                    (jpc = "classified" /\ cur.dest.dir = folders["other"])

(***************************************************************************)
(* Claims about the age check                                              *)
(***************************************************************************)
\* the scan is about to check the age of its next entry, and the entry is
\* gone or its modification time is newer than the threshold
AgeCheckSaysRecent ==
    /\ jpc = "examine" /\ entries # <<>>
    /\ ~\E f \in dirs : Head(entries) = Nm(f, <<>>, "")
    /\ ~MatchesAny(Head(entries), jcfg.ignore)
    /\ \/ ~Exists(fs, Pth(Root, Head(entries)))
       \/ now - fs[Pth(Root, Head(entries))].mtime < jcfg.min_file_age_seconds

\* C19: a file whose modification time is newer than the minimum-age
\* threshold when its age is checked, or whose metadata cannot be read then,
\* is not moved in that scan cycle: the scan leaves it in place, counts it as
\* skipped and goes on to the next entry.
C19_RecentFileSkipped ==
    [][(AgeCheckSaysRecent /\ (entries' # entries \/ jpc' = "crashed"))
            => /\ jpc' = "examine"
               /\ entries' = Tail(entries)
               /\ skipped' = skipped + 1
               /\ fs' = fs
               /\ moves' = moves]_vars

(***************************************************************************)
(* Claims about the Janitor's note                                         *)
(***************************************************************************)
\* C13: after every completed Janitor scan cycle with the note sink enabled
\* and targeted, one summary record with the cycle's moved and skipped counts
\* and its list of moves has been emitted to the sink, also for a cycle in
\* which no file was moved.
C13_EveryCycleEmitsSummary ==
    (jpc = "sleep" /\ jcfg.obsidian = "on") =>
        /\ Len(emitted) = cycle
        /\ emitted[cycle] = Summary(now, moved_count, skipped, moves)

\* C14: the Janitor's note is append-only across cycles: a write adds one new
\* section, the summary of the cycle that ends, behind the existing content
\* and leaves the earlier sections unchanged and in their order; the sections
\* are in chronological order.
C14_NoteAppendOnly ==
    /\ [][\/ note' = note
          \/ /\ jpc = "examine" /\ jpc' = "sleep"
             /\ Len(note') = Len(note) + 1
             /\ SubSeq(note', 1, Len(note)) = note
             /\ note'[Len(note')] = Summary(now, moved_count, skipped, moves)]_vars
    /\ [](\A i, j \in DOMAIN note : i < j => note[i].ts < note[j].ts)

\* two cycles have each written their section
C14_Witness ==
    /\ jpc = "sleep"
    /\ Len(note) = 2
    /\ note[2] = Summary(now, moved_count, skipped, moves)

(***************************************************************************)
(* Claims about the Dev Git Overview's scan cycle                          *)
(***************************************************************************)
\* the discovered repositories whose branch query succeeds
OkRepos == SelectSeq(repos, LAMBDA p : ~facts[p].branchFails)

\* the records of a cycle that discovered exactly the given repositories
RECURSIVE InspectAll(_)
InspectAll(list) ==
    IF list = <<>> THEN <<>>
    ELSE Collect(InspectAll(SubSeq(list, 1, Len(list) - 1)),
                 InspectRepo(list[Len(list)], facts[list[Len(list)]]))

\* C11: in a scan cycle a repository whose branch query fails yields no
\* record at all, and the records of the cycle are exactly those of a cycle
\* in which the failing repositories had not been discovered.
C11_FailedRepoDropped ==
    (cpc = "sleep" /\ cwrote # "no_root") =>
        /\ \A i \in DOMAIN repos : facts[repos[i]].branchFails =>
                \A j \in DOMAIN statuses :
                    statuses[j].project # repos[i][Len(repos[i])]
        /\ Len(statuses) = Len(OkRepos)
        /\ statuses = SortStatuses(InspectAll(OkRepos))

\* a cycle is done in which a repository whose branch query fails was
\* inspected before one whose branch query succeeds
C11_Witness ==
    /\ cpc = "sleep"
    /\ Len(repos) = 2
    /\ facts[repos[1]].branchFails
    /\ ~facts[repos[2]].branchFails
    /\ Len(statuses) = 1

\* the section a cycle renders from its records
RenderedNow == FormatSection(Title, BuildTableLines(statuses, cnow), cnow)

\* C12 as stated: after any sequence of scan cycles with the note sink
\* enabled, the note holds exactly one section, the table rendered by the
\* most recently completed cycle.
C12_NoteIsLatestTable ==
    (cpc = "sleep" /\ cobs = "on") => gnote = <<RenderedNow>>

\* C12 amended: after every cycle whose write of the note succeeds the note
\* holds exactly one section, the table rendered by that cycle, whatever it
\* held before; and the note changes only when a cycle writes it.
C12_SuccessfulWriteReplaces ==
    /\ []((cpc = "sleep" /\ cwrote = "ok") => gnote = <<RenderedNow>>)
    /\ [][gnote' # gnote => (cpc = "inspect" /\ cpc' = "sleep" /\ cobs = "on")]_vars

\* a second cycle has written a table with a repository in it
C12_Witness ==
    /\ cpc = "sleep"
    /\ ccycle >= 2
    /\ cwrote = "ok"
    /\ statuses # <<>>

(***************************************************************************)
(* Claims about the flags                                                  *)
(***************************************************************************)
\* hours between the record's last push and the rendering
ElapsedHours == cnow - AsUtc(statuses[1].last_push_at.v)

RenderedFlag == markdown.v.lines[1].flag

\* C17: flag boundaries are strict: for a non-null last-push timestamp
\* 'stale>7d' is set iff elapsed > 7 days and 'dirty+24h' iff elapsed > 24
\* hours and the dirty count is positive; both may co-occur; a null timestamp
\* or no applicable flag renders as a single dash.
C17_StrictFlagBoundaries ==
    cpc = "rendered" =>
        IF ~statuses[1].last_push_at.some THEN RenderedFlag = "-"
        ELSE LET stale == ElapsedHours > 7 * 24
                 dirty == ElapsedHours > 24 /\ statuses[1].dirty_count > 0
             IN  RenderedFlag = (CASE stale /\ dirty -> "stale>7d, dirty+24h"
                                   [] stale /\ ~dirty -> "stale>7d"
                                   [] ~stale /\ dirty -> "dirty+24h"
                                   [] OTHER -> "-")

\* a dirty repository rendered exactly seven days after its last push
C17_Witness ==
    /\ cpc = "rendered"
    /\ statuses[1].last_push_at.some
    /\ statuses[1].dirty_count > 0
    /\ ElapsedHours = 7 * 24
    /\ RenderedFlag = "dirty+24h"

(***************************************************************************)
(* Claims about discovery                                                  *)
(***************************************************************************)
\* q lies beneath p
IsBeneath(q, p) == Len(q) > Len(p) /\ SubSeq(q, 1, Len(p)) = p

\* C15: discovery never descends into a recorded repository root: every
\* recorded directory directly contains the marker, no directory beneath a
\* recorded one is visited, and no returned path is a descendant of another
\* returned path.
C15_NoDescentIntoRepos ==
    /\ \A i \in DOMAIN found : found[i] \in tree.git
    /\ \A i \in DOMAIN found : \A j \in DOMAIN visited :
            ~IsBeneath(visited[j], found[i])
    /\ \A i, j \in DOMAIN found : ~IsBeneath(found[j], found[i])

\* the walk has returned a repository that has a marked directory beneath it
C15_Witness ==
    /\ wpc = "done"
    /\ \E i \in DOMAIN found : \E q \in tree.git : IsBeneath(q, found[i])

\* C16 as stated: for every max_depth >= 0 no directory deeper than
\* max_depth is visited by the walk or recorded as a repository root.
C16_NothingBeyondMaxDepth ==
    wcfg.max_depth >= 0 =>
        /\ \A j \in DOMAIN visited : Depth(visited[j]) <= wcfg.max_depth
        /\ \A i \in DOMAIN found : Depth(found[i]) <= wcfg.max_depth

\* C16 amended: for every max_depth >= 0 no directory deeper than max_depth
\* is recorded as a repository root, and no directory deeper than
\* max_depth + 1 is visited: the directories one level below the limit are
\* handed to the walk, which prunes them there.
C16_PrunedOneBelowMaxDepth ==
    wcfg.max_depth >= 0 =>
        /\ \A j \in DOMAIN visited : Depth(visited[j]) <= wcfg.max_depth + 1
        /\ \A i \in DOMAIN found : Depth(found[i]) <= wcfg.max_depth

\* the walk is done with a tree that has a marked directory one level below
\* the limit, visited and not recorded, and a directory beneath that one
C16_Witness ==
    /\ wpc = "done"
    /\ wcfg.max_depth >= 0
    /\ \E j \in DOMAIN visited :
        /\ Depth(visited[j]) = wcfg.max_depth + 1
        /\ visited[j] \in tree.git
        /\ \E q \in tree.dirs : IsBeneath(q, visited[j])

====
